---- MODULE Spec2Model ----
(***************************************************************************)
(* LOOT: generic game install detection (gui/state/game/detection/         *)
(* generic.cpp) and the load order mapper MapFromLoadOrderData             *)
(* (gui/state/game/game.h).                                                *)
(*                                                                         *)
(* Two specifications share the module:                                    *)
(*   Spec     the install detection: a file system is drawn, then          *)
(*            FindGameInstalls and DetectGameInstall are called on it;     *)
(*   MapSpec  one call of MapFromLoadOrderData, with the workers of the    *)
(*            parallel std::transform interleaved in every order.          *)
(***************************************************************************)
EXTENDS Naturals, Sequences, FiniteSets

VARIABLES
  fs,              \* the file system: directory -> names of the entries in it
  pc,              \* "idle": no call in progress; "returned": a call has ended
  call,            \* the arguments of the last detection call
  result,          \* what the last detection call returned or threw
  checks,          \* the validity and existence checks that call made, in order
  game,            \* gui::Game: the loaded plugins and the active plugins
  loadOrder,       \* the loadOrder argument of MapFromLoadOrderData
  logger,          \* whether getLogger() returns a logger
  mpc,             \* the position of MapFromLoadOrderData
  data,            \* std::vector<LoadOrderTuple> data
  maybeMappedData, \* std::vector<MappedDataOrError> maybeMappedData
  done,            \* the elements std::transform has applied the transformer to
  log,             \* the logger->error calls made, in time order
  outcome          \* what MapFromLoadOrderData returned or threw

detectVars == <<fs, pc, call, result, checks>>
mapVars ==
  <<game, loadOrder, logger, mpc, data, maybeMappedData, done, log, outcome>>
vars ==
  <<fs, pc, call, result, checks,
    game, loadOrder, logger, mpc, data, maybeMappedData, done, log, outcome>>

(***************************************************************************)
(* Bounds of the model.                                                    *)
(***************************************************************************)
\* The number of marker files and directories present in the file system.
MaxFiles == 2
\* The length of the load order.
MaxLen == 4

(***************************************************************************)
(* The enumerations.                                                       *)
(***************************************************************************)
GameIds ==
  {"tes3", "tes4", "nehrim", "tes5", "enderal", "tes5se", "enderalse",
   "tes5vr", "fo3", "fonv", "fo4", "fo4vr"}

GameTypes ==
  {"tes3", "tes4", "tes5", "tes5se", "tes5vr", "fo3", "fonv", "fo4", "fo4vr"}

\* A GameType value outside the enumerators that DetectGameId's switch names.
UnrecognisedGameType == "unrecognised"

(***************************************************************************)
(* The file system.  ".." is the path FindSiblingGameInstall looks at; the *)
(* absolute path SiblingAbsolutePath is the same directory, as a registry  *)
(* value or a configured path names it.                                    *)
(***************************************************************************)
SiblingPath == ".."
SiblingAbsolutePath == "C:\\Games\\A"
OtherPath == "D:\\Games\\B"
Paths == {SiblingPath, SiblingAbsolutePath, OtherPath}

Dirs == {"A", "B"}

Resolve(path) == IF path = OtherPath THEN "B" ELSE "A"

\* Sample GOG catalogue IDs.
GogIdPool == <<"1440163901", "1435828767">>

GogIcon(gogGameId) == "goggame-" \o gogGameId \o ".ico"

Files ==
  {"steam_autocloud.vdf", "steam_api.dll", "installscript.vdf",
   ".egstore", "appxmanifest.xml", "NehrimLauncher.exe",
   "Enderal Launcher.exe"}
  \cup {GogIcon(GogIdPool[i]) : i \in 1..Len(GogIdPool)}

\* std::filesystem::exists(installPath / file)
Exists(installPath, file) == file \in fs[Resolve(installPath)]

(***************************************************************************)
(* What a function hands back: its value, the checks it made, and whether  *)
(* it threw std::logic_error instead of returning.                         *)
(***************************************************************************)
Returned(v, c) == [value |-> v, checks |-> c, thrown |-> FALSE]
Thrown(c) == [value |-> <<>>, checks |-> c, thrown |-> TRUE]

ExistsCheck(installPath, file) ==
  Returned(Exists(installPath, file),
           <<[check |-> "exists", path |-> installPath, file |-> file]>>)

GameInstall(gameId, source, installPath, localPath) ==
  [gameId |-> gameId, source |-> source, installPath |-> installPath,
   localPath |-> localPath]

(***************************************************************************)
(* The collaborators declared in common.h, gog.h and registry.h.           *)
(***************************************************************************)
GetGameType(gameId) ==
  CASE gameId \in {"tes4", "nehrim"} -> "tes4"
    [] gameId \in {"tes5", "enderal"} -> "tes5"
    [] gameId \in {"tes5se", "enderalse"} -> "tes5se"
    [] OTHER -> gameId

GetMasterFilename(gameId) ==
  CASE gameId = "tes3" -> "Morrowind.esm"
    [] gameId = "tes4" -> "Oblivion.esm"
    [] gameId = "nehrim" -> "Nehrim.esm"
    [] gameId \in {"tes5", "enderal", "tes5se", "enderalse", "tes5vr"} ->
         "Skyrim.esm"
    [] gameId = "fo3" -> "Fallout3.esm"
    [] gameId = "fonv" -> "FalloutNV.esm"
    [] OTHER -> "Fallout4.esm"

\* The validator is an oracle: env.valid is the set of
\* <<game type, master file, directory>> triples it accepts.
IsValidGamePath(env, gameType, masterFilename, pathToCheck) ==
  Returned(<<gameType, masterFilename, Resolve(pathToCheck)>> \in env.valid,
           <<[check |-> "IsValidGamePath", path |-> pathToCheck,
              file |-> masterFilename]>>)

\* The GOG catalogue is an oracle: env.gog maps a game to its catalogue IDs.
GetGogGameIds(env, gameId) == env.gog[gameId]

\* The registry is a set of [value, path] entries; the answer is <<>> or
\* <<path>>.
ReadPathFromRegistry(registry, value) ==
  IF \E e \in registry : e.value = value
    THEN <<(CHOOSE e \in registry : e.value = value).path>>
    ELSE <<>>

(***************************************************************************)
(* generic.cpp, the anonymous namespace.                                   *)
(***************************************************************************)
GetRegistryValue(gameId) ==
  CASE gameId = "tes3" ->
         <<"HKEY_LOCAL_MACHINE", "Software\\Bethesda Softworks\\Morrowind",
           "Installed Path">>
    [] gameId = "tes4" ->
         <<"HKEY_LOCAL_MACHINE", "Software\\Bethesda Softworks\\Oblivion",
           "Installed Path">>
    [] gameId = "nehrim" ->
         <<"HKEY_LOCAL_MACHINE",
           "Software\\Microsoft\\Windows\\CurrentVersion\\Uninstall\\Nehrim - At Fate's Edge_is1",
           "InstallLocation">>
    [] gameId = "tes5" ->
         <<"HKEY_LOCAL_MACHINE", "Software\\Bethesda Softworks\\Skyrim",
           "Installed Path">>
    [] gameId = "enderal" ->
         <<"HKEY_CURRENT_USER", "SOFTWARE\\SureAI\\Enderal", "Install_Path">>
    [] gameId = "tes5se" ->
         <<"HKEY_LOCAL_MACHINE",
           "Software\\Bethesda Softworks\\Skyrim Special Edition",
           "Installed Path">>
    [] gameId = "enderalse" ->
         <<"HKEY_CURRENT_USER", "SOFTWARE\\SureAI\\EnderalSE", "Install_Path">>
    [] gameId = "tes5vr" ->
         <<"HKEY_LOCAL_MACHINE", "Software\\Bethesda Softworks\\Skyrim VR",
           "Installed Path">>
    [] gameId = "fo3" ->
         <<"HKEY_LOCAL_MACHINE", "Software\\Bethesda Softworks\\Fallout3",
           "Installed Path">>
    [] gameId = "fonv" ->
         <<"HKEY_LOCAL_MACHINE", "Software\\Bethesda Softworks\\FalloutNV",
           "Installed Path">>
    [] gameId = "fo4" ->
         <<"HKEY_LOCAL_MACHINE", "Software\\Bethesda Softworks\\Fallout4",
           "Installed Path">>
    [] gameId = "fo4vr" ->
         <<"HKEY_LOCAL_MACHINE", "Software\\Bethesda Softworks\\Fallout 4 VR",
           "Installed Path">>

IsSteamInstall(gameId, installPath) ==
  CASE gameId = "tes3" -> ExistsCheck(installPath, "steam_autocloud.vdf")
    [] gameId = "nehrim" -> ExistsCheck(installPath, "steam_api.dll")
    [] gameId \in {"tes5", "tes5vr", "fo4vr"} -> Returned(TRUE, <<>>)
    [] gameId \in {"tes4", "tes5se", "enderal", "enderalse", "fo3", "fonv",
                   "fo4"} ->
         ExistsCheck(installPath, "installscript.vdf")
    [] OTHER -> Thrown(<<>>)

\* The loop of IsGogInstall from the i-th catalogue ID on.
RECURSIVE GogIconLoop(_, _, _)
GogIconLoop(gogGameIds, installPath, i) ==
  IF i > Len(gogGameIds)
    THEN Returned(FALSE, <<>>)
    ELSE LET icon == ExistsCheck(installPath, GogIcon(gogGameIds[i]))
         IN  IF icon.value
               THEN Returned(TRUE, icon.checks)
               ELSE LET rest == GogIconLoop(gogGameIds, installPath, i + 1)
                    IN  Returned(rest.value, icon.checks \o rest.checks)

IsGogInstall(env, gameId, installPath) ==
  GogIconLoop(GetGogGameIds(env, gameId), installPath, 1)

IsEpicInstall(installPath) == ExistsCheck(installPath, ".egstore")

IsMicrosoftInstall(installPath) == ExistsCheck(installPath, "appxmanifest.xml")

\* A faulty FindGameInstallInRegistry: it goes on to the Epic and Microsoft
\* checks as the sibling scan does.
FindGameInstallInRegistryFourWay(env, registry, gameId) ==
  LET path == ReadPathFromRegistry(registry, GetRegistryValue(gameId))
  IN  IF path = <<>>
        THEN Returned(<<>>, <<>>)
        ELSE
          LET valid == IsValidGamePath(env, GetGameType(gameId),
                                       GetMasterFilename(gameId), path[1])
              source ==
                IF IsSteamInstall(gameId, path[1]).value THEN "steam"
                ELSE IF IsGogInstall(env, gameId, path[1]).value THEN "gog"
                ELSE IF IsEpicInstall(path[1]).value THEN "epic"
                ELSE IF IsMicrosoftInstall(path[1]).value THEN "microsoft"
                ELSE "unknown"
          IN  IF ~valid.value
                THEN Returned(<<>>, valid.checks)
                ELSE Returned(<<GameInstall(gameId, source, path[1], "")>>,
                              valid.checks)

FindGameInstallInRegistry(env, registry, gameId) ==
  LET path == ReadPathFromRegistry(registry, GetRegistryValue(gameId))
  IN  IF path = <<>>
        THEN Returned(<<>>, <<>>)
        ELSE
          LET valid == IsValidGamePath(env, GetGameType(gameId),
                                       GetMasterFilename(gameId), path[1])
          IN  IF ~valid.value
                THEN Returned(<<>>, valid.checks)
                ELSE
                  LET steam == IsSteamInstall(gameId, path[1])
                      c1 == valid.checks \o steam.checks
                  IN  IF steam.thrown THEN Thrown(c1)
                      ELSE IF steam.value
                        THEN Returned(
                               <<GameInstall(gameId, "steam", path[1], "")>>,
                               c1)
                      ELSE
                        LET gog == IsGogInstall(env, gameId, path[1])
                            c2 == c1 \o gog.checks
                        IN  IF gog.value
                              THEN Returned(
                                     <<GameInstall(gameId, "gog", path[1],
                                                   "")>>,
                                     c2)
                              ELSE Returned(
                                     <<GameInstall(gameId, "unknown", path[1],
                                                   "")>>,
                                     c2)

\* A faulty FindSiblingGameInstall: the GOG check comes before the Steam
\* check.
FindSiblingGameInstallGogFirst(env, gameId) ==
  LET path == SiblingPath
      valid == IsValidGamePath(env, GetGameType(gameId),
                               GetMasterFilename(gameId), path)
      source ==
        IF IsGogInstall(env, gameId, path).value THEN "gog"
        ELSE IF IsSteamInstall(gameId, path).value THEN "steam"
        ELSE IF IsEpicInstall(path).value THEN "epic"
        ELSE IF IsMicrosoftInstall(path).value THEN "microsoft"
        ELSE "unknown"
  IN  IF ~valid.value
        THEN Returned(<<>>, valid.checks)
        ELSE Returned(<<GameInstall(gameId, source, path, "")>>, valid.checks)

\* A faulty DetectGameId: the Skyrim SE case returns Enderal, the variant of
\* the Skyrim case above it.
DetectGameIdSharedLauncher(gameType, installPath) ==
  CASE gameType = "tes4" ->
         LET launcher == ExistsCheck(installPath, "NehrimLauncher.exe")
         IN  Returned(IF launcher.value THEN "nehrim" ELSE "tes4",
                      launcher.checks)
    [] gameType = "tes5" ->
         LET launcher == ExistsCheck(installPath, "Enderal Launcher.exe")
         IN  Returned(IF launcher.value THEN "enderal" ELSE "tes5",
                      launcher.checks)
    [] gameType = "tes5se" ->
         LET launcher == ExistsCheck(installPath, "Enderal Launcher.exe")
         IN  Returned(IF launcher.value THEN "enderal" ELSE "tes5se",
                      launcher.checks)
    [] gameType \in {"tes3", "tes5vr", "fo3", "fonv", "fo4", "fo4vr"} ->
         Returned(gameType, <<>>)
    [] OTHER -> Thrown(<<>>)

FindSiblingGameInstall(env, gameId) ==
  LET path == SiblingPath
      valid == IsValidGamePath(env, GetGameType(gameId),
                               GetMasterFilename(gameId), path)
  IN  IF ~valid.value
        THEN Returned(<<>>, valid.checks)
        ELSE
          LET steam == IsSteamInstall(gameId, path)
              c1 == valid.checks \o steam.checks
          IN  IF steam.thrown THEN Thrown(c1)
              ELSE IF steam.value
                THEN Returned(<<GameInstall(gameId, "steam", path, "")>>, c1)
              ELSE
                LET gog == IsGogInstall(env, gameId, path)
                    c2 == c1 \o gog.checks
                IN  IF gog.value
                      THEN Returned(<<GameInstall(gameId, "gog", path, "")>>,
                                    c2)
                    ELSE
                      LET epic == IsEpicInstall(path)
                          c3 == c2 \o epic.checks
                      IN  IF epic.value
                            THEN Returned(
                                   <<GameInstall(gameId, "epic", path, "")>>,
                                   c3)
                          ELSE
                            LET microsoft == IsMicrosoftInstall(path)
                                c4 == c3 \o microsoft.checks
                            IN  IF microsoft.value
                                  THEN Returned(
                                         <<GameInstall(gameId, "microsoft",
                                                       path, "")>>,
                                         c4)
                                  ELSE Returned(
                                         <<GameInstall(gameId, "unknown",
                                                       path, "")>>,
                                         c4)

DetectGameId(gameType, installPath) ==
  CASE gameType = "tes3" -> Returned("tes3", <<>>)
    [] gameType = "tes4" ->
         LET launcher == ExistsCheck(installPath, "NehrimLauncher.exe")
         IN  Returned(IF launcher.value THEN "nehrim" ELSE "tes4",
                      launcher.checks)
    [] gameType = "tes5" ->
         LET launcher == ExistsCheck(installPath, "Enderal Launcher.exe")
         IN  Returned(IF launcher.value THEN "enderal" ELSE "tes5",
                      launcher.checks)
    [] gameType = "tes5se" ->
         LET launcher == ExistsCheck(installPath, "Enderal Launcher.exe")
         IN  Returned(IF launcher.value THEN "enderalse" ELSE "tes5se",
                      launcher.checks)
    [] gameType = "tes5vr" -> Returned("tes5vr", <<>>)
    [] gameType = "fo3" -> Returned("fo3", <<>>)
    [] gameType = "fonv" -> Returned("fonv", <<>>)
    [] gameType = "fo4" -> Returned("fo4", <<>>)
    [] gameType = "fo4vr" -> Returned("fo4vr", <<>>)
    [] OTHER -> Thrown(<<>>)

(***************************************************************************)
(* generic.cpp, namespace loot::generic.                                   *)
(***************************************************************************)
\* A faulty FindGameInstalls: it gives each install the identity DetectGameId
\* finds in its path rather than the game ID of the call.
FindGameInstallsResolved(env, registry, gameId) ==
  LET sibling == FindSiblingGameInstall(env, gameId)
      registryInstall == FindGameInstallInRegistry(env, registry, gameId)
      installs == sibling.value \o registryInstall.value
  IN  Returned([i \in 1..Len(installs) |->
                  [installs[i] EXCEPT !.gameId =
                     DetectGameId(GetGameType(gameId),
                                  installs[i].installPath).value]],
               sibling.checks \o registryInstall.checks)

\* A faulty FindGameInstalls: it drops the registry install when it is the
\* directory of the sibling install.
FindGameInstallsDeduplicated(env, registry, gameId) ==
  LET sibling == FindSiblingGameInstall(env, gameId)
      registryInstall == FindGameInstallInRegistry(env, registry, gameId)
      c == sibling.checks \o registryInstall.checks
  IN  IF sibling.value # <<>> /\ registryInstall.value # <<>>
         /\ Resolve(sibling.value[1].installPath)
              = Resolve(registryInstall.value[1].installPath)
        THEN Returned(sibling.value, c)
        ELSE Returned(sibling.value \o registryInstall.value, c)

FindGameInstalls(env, registry, gameId) ==
  LET sibling == FindSiblingGameInstall(env, gameId)
  IN  IF sibling.thrown THEN sibling
      ELSE
        LET registryInstall == FindGameInstallInRegistry(env, registry, gameId)
            c == sibling.checks \o registryInstall.checks
        IN  IF registryInstall.thrown THEN Thrown(c)
            ELSE Returned(sibling.value \o registryInstall.value, c)

\* A faulty DetectGameInstall: it resolves the identity before it checks
\* that the path is valid.
DetectGameInstallIdFirst(env, settings) ==
  LET installPath == settings.gamePath
      id == DetectGameId(settings.type, installPath)
      valid == IsValidGamePath(env, settings.type, settings.master,
                               installPath)
      c == id.checks \o valid.checks
      source ==
        IF IsSteamInstall(id.value, installPath).value THEN "steam"
        ELSE IF IsGogInstall(env, id.value, installPath).value THEN "gog"
        ELSE IF IsEpicInstall(installPath).value THEN "epic"
        ELSE IF IsMicrosoftInstall(installPath).value THEN "microsoft"
        ELSE "unknown"
  IN  IF id.thrown THEN Thrown(id.checks)
      ELSE IF ~valid.value THEN Returned(<<>>, c)
      ELSE Returned(<<GameInstall(id.value, source, installPath,
                                  settings.gameLocalPath)>>,
                    c)

\* settings: [type, master, gamePath, gameLocalPath]
DetectGameInstall(env, settings) ==
  LET valid == IsValidGamePath(env, settings.type, settings.master,
                               settings.gamePath)
  IN  IF ~valid.value
        THEN Returned(<<>>, valid.checks)
        ELSE
          LET installPath == settings.gamePath
              id == DetectGameId(settings.type, installPath)
              c0 == valid.checks \o id.checks
          IN  IF id.thrown THEN Thrown(c0)
              ELSE
                LET gameId == id.value
                    steam == IsSteamInstall(gameId, installPath)
                    c1 == c0 \o steam.checks
                IN  IF steam.thrown THEN Thrown(c1)
                    ELSE IF steam.value
                      THEN Returned(
                             <<GameInstall(gameId, "steam", installPath,
                                           settings.gameLocalPath)>>,
                             c1)
                    ELSE
                      LET gog == IsGogInstall(env, gameId, installPath)
                          c2 == c1 \o gog.checks
                      IN  IF gog.value
                            THEN Returned(
                                   <<GameInstall(gameId, "gog", installPath,
                                                 settings.gameLocalPath)>>,
                                   c2)
                          ELSE
                            LET epic == IsEpicInstall(installPath)
                                c3 == c2 \o epic.checks
                            IN  IF epic.value
                                  THEN Returned(
                                         <<GameInstall(
                                             gameId, "epic", installPath,
                                             settings.gameLocalPath)>>,
                                         c3)
                                ELSE
                                  LET microsoft ==
                                        IsMicrosoftInstall(installPath)
                                      c4 == c3 \o microsoft.checks
                                  IN  IF microsoft.value
                                        THEN Returned(
                                               <<GameInstall(
                                                   gameId, "microsoft",
                                                   installPath,
                                                   settings.gameLocalPath)>>,
                                               c4)
                                        ELSE Returned(
                                               <<GameInstall(
                                                   gameId, "unknown",
                                                   installPath,
                                                   settings.gameLocalPath)>>,
                                               c4)

(***************************************************************************)
(* The inputs of the detection calls.                                      *)
(***************************************************************************)
\* The file systems: at most MaxFiles entries over the two directories.
FileSystems ==
  {f \in [Dirs -> SUBSET Files] :
     Cardinality(f["A"]) + Cardinality(f["B"]) <= MaxFiles}

\* A catalogue in which every game has the same catalogue IDs.
Catalogue(gogGameIds) == [g \in GameIds |-> gogGameIds]

Catalogues == {Catalogue(<<>>), Catalogue(GogIdPool)}

\* A validator accepting, for one game type and master file, the directories
\* of accepted.
Validator(gameType, masterFilename, accepted) ==
  {<<gameType, masterFilename, d>> : d \in accepted}

\* Some other game's registry value.
OtherGame(gameId) == IF gameId = "tes3" THEN "tes4" ELSE "tes3"

\* The registries: empty, the game's generic key set to a path, or only
\* another game's key set.
Registries(gameId) ==
  {{}}
  \cup {{[value |-> GetRegistryValue(gameId), path |-> p]} : p \in Paths}
  \cup {{[value |-> GetRegistryValue(OtherGame(gameId)), path |-> SiblingPath]}}

\* The directories FindGameInstalls asks the validator about.
ConsultedDirs(registry, gameId) ==
  {Resolve(SiblingPath)}
  \cup {Resolve(p) : p \in {q \in Paths :
          ReadPathFromRegistry(registry, GetRegistryValue(gameId)) = <<q>>}}

\* The master files a user configures for a game type.
ConfiguredMasters(type) ==
  IF type \in GameTypes
    THEN {GetMasterFilename(g) : g \in {h \in GameIds : GetGameType(h) = type}}
    ELSE {"Unknown.esm"}

LocalPaths == {"", "C:\\Users\\me\\AppData\\Local\\Game"}

NoCall == [op |-> "none"]
NoResult == [status |-> "none", value |-> <<>>]

(***************************************************************************)
(* The detection calls.                                                    *)
(***************************************************************************)
DetectInit ==
  /\ fs \in FileSystems
  /\ pc = "idle"
  /\ call = NoCall
  /\ result = NoResult
  /\ checks = <<>>

\* What a call leaves in the state.
Finish(c, r) ==
  /\ pc' = "returned"
  /\ call' = c
  /\ result' = [status |-> IF r.thrown THEN "thrown" ELSE "returned",
                value |-> r.value]
  /\ checks' = r.checks
  /\ UNCHANGED fs

CallFindGameInstalls ==
  /\ pc = "idle"
  /\ \E gameId \in GameIds :
       \E registry \in Registries(gameId), gog \in Catalogues :
         \E accepted \in SUBSET ConsultedDirs(registry, gameId) :
           LET env == [valid |-> Validator(GetGameType(gameId),
                                           GetMasterFilename(gameId),
                                           accepted),
                       gog |-> gog]
           IN  Finish([op |-> "FindGameInstalls", env |-> env,
                       registry |-> registry, gameId |-> gameId],
                      FindGameInstalls(env, registry, gameId))

CallDetectGameInstall ==
  /\ pc = "idle"
  /\ \E type \in GameTypes \cup {UnrecognisedGameType}, path \in Paths,
        localPath \in LocalPaths, gog \in Catalogues :
       \E master \in ConfiguredMasters(type),
          accepted \in SUBSET {Resolve(path)} :
         LET settings == [type |-> type, master |-> master, gamePath |-> path,
                          gameLocalPath |-> localPath]
             env == [valid |-> Validator(type, master, accepted), gog |-> gog]
         IN  Finish([op |-> "DetectGameInstall", env |-> env,
                     settings |-> settings],
                    DetectGameInstall(env, settings))

\* The caller takes the result; the next call starts afresh.
Return ==
  /\ pc = "returned"
  /\ pc' = "idle"
  /\ call' = NoCall
  /\ result' = NoResult
  /\ checks' = <<>>
  /\ UNCHANGED fs

(***************************************************************************)
(* game.h: MapFromLoadOrderData.                                           *)
(*                                                                         *)
(* A plugin is known by its name.  game.plugins maps the name of each      *)
(* loaded plugin to [isLight]; game.active holds the names of the active   *)
(* plugins.  The mapper is the caller's: the value it returns is kept as   *)
(* the record of the arguments it was called with, and whether it throws   *)
(* for an element is open at each call.                                    *)
(***************************************************************************)
PluginNames == <<"a.esp", "b.esp", "c.esp", "d.esp", "e.esp", "f.esp">>

\* game.GetPlugin(name): <<>> for nullptr, <<name>> for a plugin.
GetPlugin(name) == IF name \in DOMAIN game.plugins THEN <<name>> ELSE <<>>

\* plugin->IsLightPlugin()
IsLightPlugin(plugin) == game.plugins[plugin].isLight

\* game.IsPluginActive(pluginName)
IsPluginActive(pluginName) == pluginName \in game.active

LoadOrderTuple(plugin, activeLoadOrderIndex, isActive) ==
  [plugin |-> plugin, activeLoadOrderIndex |-> activeLoadOrderIndex,
   isActive |-> isActive]

\* A faulty first loop: one counter for light and normal plugins alike.
RECURSIVE CollectDataOneCounter(_, _, _, _)
CollectDataOneCounter(i, numberOfActiveLightPlugins, numberOfActiveNormalPlugins, acc) ==
  IF i > Len(loadOrder) THEN acc
  ELSE
    LET pluginName == loadOrder[i]
        plugin == GetPlugin(pluginName)
    IN  IF plugin = <<>>
          THEN CollectDataOneCounter(i + 1, numberOfActiveLightPlugins,
                                     numberOfActiveNormalPlugins, acc)
          ELSE
            LET isActive == IsPluginActive(pluginName)
                activeLoadOrderIndex ==
                  IF isActive THEN <<numberOfActiveNormalPlugins>> ELSE <<>>
            IN  CollectDataOneCounter(
                  i + 1, numberOfActiveLightPlugins,
                  IF isActive THEN numberOfActiveNormalPlugins + 1
                  ELSE numberOfActiveNormalPlugins,
                  Append(acc, LoadOrderTuple(plugin[1], activeLoadOrderIndex,
                                             isActive)))

\* The first loop from the i-th name of the load order on: the tuples
\* appended to data.  An optional index is <<>> or <<index>>.
RECURSIVE CollectData(_, _, _, _)
CollectData(i, numberOfActiveLightPlugins, numberOfActiveNormalPlugins, acc) ==
  IF i > Len(loadOrder) THEN acc
  ELSE
    LET pluginName == loadOrder[i]
        plugin == GetPlugin(pluginName)
    IN  IF plugin = <<>>
          THEN CollectData(i + 1, numberOfActiveLightPlugins,
                           numberOfActiveNormalPlugins, acc)
          ELSE
            LET isLight == IsLightPlugin(plugin[1])
                isActive == IsPluginActive(pluginName)
                numberOfActivePlugins ==
                  IF isLight THEN numberOfActiveLightPlugins
                  ELSE numberOfActiveNormalPlugins
                activeLoadOrderIndex ==
                  IF isActive THEN <<numberOfActivePlugins>> ELSE <<>>
            IN  CollectData(
                  i + 1,
                  IF isActive /\ isLight THEN numberOfActiveLightPlugins + 1
                  ELSE numberOfActiveLightPlugins,
                  IF isActive /\ ~isLight THEN numberOfActiveNormalPlugins + 1
                  ELSE numberOfActiveNormalPlugins,
                  Append(acc, LoadOrderTuple(plugin[1], activeLoadOrderIndex,
                                             isActive)))

\* The value the mapper returns for a tuple.
Mapper(loadOrderTuple) == loadOrderTuple

\* T{}, the value a default-constructed MappedDataOrError holds.
DefaultT == LoadOrderTuple("", <<>>, FALSE)

\* e.what() of the exception the mapper throws for a tuple.
What(loadOrderTuple) == "cannot map " \o loadOrderTuple.plugin

\* A MappedDataOrError holding a T, and one holding a std::string.
MappedData(value) == [holds |-> "T", value |-> value, what |-> ""]
MappedError(what) == [holds |-> "string", value |-> DefaultT, what |-> what]

ErrorLine(what) ==
  "Failed to map load order data to output type, exception is: " \o what

\* The transformer lambda: the slot it returns and the lines it logs.
Transformer(loadOrderTuple, mapperThrows) ==
  IF ~mapperThrows
    THEN [slot |-> MappedData(Mapper(loadOrderTuple)), logged |-> <<>>]
    ELSE [slot |-> MappedError(What(loadOrderTuple)),
          logged |-> IF logger THEN <<ErrorLine(What(loadOrderTuple))>>
                     ELSE <<>>]

\* A faulty last loop: it skips the slots holding an error and throws, after
\* the loop, the last error it met.
RECURSIVE CollectMappedDataLastError(_, _)
CollectMappedDataLastError(i, mappedData) ==
  IF i > Len(maybeMappedData)
    THEN [status |-> "returned", value |-> mappedData, what |-> ""]
    ELSE
      LET rest == CollectMappedDataLastError(
                    i + 1,
                    IF maybeMappedData[i].holds = "T"
                      THEN Append(mappedData, maybeMappedData[i].value)
                      ELSE mappedData)
      IN  IF rest.status = "thrown" \/ maybeMappedData[i].holds = "T"
            THEN rest
            ELSE [status |-> "thrown", value |-> <<>>,
                  what |-> maybeMappedData[i].what]

\* A faulty last loop: it leaves out the slots holding an error and returns
\* the rest.
RECURSIVE CollectMappedDataPartial(_, _)
CollectMappedDataPartial(i, mappedData) ==
  IF i > Len(maybeMappedData)
    THEN [status |-> "returned", value |-> mappedData, what |-> ""]
    ELSE CollectMappedDataPartial(
           i + 1,
           IF maybeMappedData[i].holds = "T"
             THEN Append(mappedData, maybeMappedData[i].value)
             ELSE mappedData)

\* The last loop from the i-th slot on: the vector returned, or the
\* std::runtime_error thrown.
RECURSIVE CollectMappedData(_, _)
CollectMappedData(i, mappedData) ==
  IF i > Len(maybeMappedData)
    THEN [status |-> "returned", value |-> mappedData, what |-> ""]
    ELSE IF maybeMappedData[i].holds = "T"
      THEN CollectMappedData(i + 1,
                             Append(mappedData, maybeMappedData[i].value))
      ELSE [status |-> "thrown", value |-> <<>>,
            what |-> maybeMappedData[i].what]

NoOutcome == [status |-> "none", value |-> <<>>, what |-> ""]

(***************************************************************************)
(* The inputs of MapFromLoadOrderData.                                     *)
(***************************************************************************)
Min(a, b) == IF a <= b THEN a ELSE b

LoadOrders ==
  {SubSeq(PluginNames, 1, n) : n \in 0..Min(MaxLen, Len(PluginNames))}

Names(order) == {order[i] : i \in 1..Len(order)}

\* The games: some names of the load order are loaded plugins, light or not,
\* and some of the loaded plugins are active.
Games(order) ==
  UNION {{[plugins |-> p, active |-> a] :
            p \in [known -> [isLight : BOOLEAN]], a \in SUBSET known} :
         known \in SUBSET Names(order)}

(***************************************************************************)
(* The steps of MapFromLoadOrderData.                                      *)
(***************************************************************************)
\* The first loop, and the presized maybeMappedData.
FirstLoop ==
  /\ mpc = "first loop"
  /\ data' = CollectData(1, 0, 0, <<>>)
  /\ maybeMappedData' = [i \in 1..Len(data') |-> MappedData(DefaultT)]
  /\ mpc' = "transform"
  /\ UNCHANGED <<game, loadOrder, logger, done, log, outcome>>

\* std::transform returns once the transformer was applied to every element.
TransformReturns == done = 1..Len(data)

\* A faulty std::transform step: the result goes to the first free position,
\* as with std::back_inserter, whichever element it belongs to.
TransformInCompletionOrder(i) ==
  /\ mpc = "transform"
  /\ i \in (1..Len(data)) \ done
  /\ \E mapperThrows \in BOOLEAN :
       LET r == Transformer(data[i], mapperThrows)
       IN  /\ maybeMappedData' =
                [maybeMappedData EXCEPT ![Cardinality(done) + 1] = r.slot]
           /\ log' = log \o r.logged
  /\ done' = done \cup {i}
  /\ UNCHANGED <<game, loadOrder, logger, mpc, data, outcome>>

\* One application of the transformer by std::transform, to any element not
\* yet done, its result stored at the element's position.
Transform(i) ==
  /\ mpc = "transform"
  /\ i \in (1..Len(data)) \ done
  /\ \E mapperThrows \in BOOLEAN :
       LET r == Transformer(data[i], mapperThrows)
       IN  /\ maybeMappedData' = [maybeMappedData EXCEPT ![i] = r.slot]
           /\ log' = log \o r.logged
  /\ done' = done \cup {i}
  /\ UNCHANGED <<game, loadOrder, logger, mpc, data, outcome>>

\* The last loop, after std::transform has returned.
LastLoop ==
  /\ mpc = "transform"
  /\ TransformReturns
  /\ outcome' = CollectMappedData(1, <<>>)
  /\ mpc' = "done"
  /\ UNCHANGED <<game, loadOrder, logger, data, maybeMappedData, done, log>>

DetectIdle ==
  /\ fs = [d \in Dirs |-> {}]
  /\ pc = "idle"
  /\ call = NoCall
  /\ result = NoResult
  /\ checks = <<>>

MapInit ==
  /\ DetectIdle
  /\ loadOrder \in LoadOrders
  /\ game \in Games(loadOrder)
  /\ logger \in BOOLEAN
  /\ mpc = "first loop"
  /\ data = <<>>
  /\ maybeMappedData = <<>>
  /\ done = {}
  /\ log = <<>>
  /\ outcome = NoOutcome

MapNext ==
  \/ FirstLoop /\ UNCHANGED detectVars
  \/ (\E i \in 1..Len(data) : Transform(i)) /\ UNCHANGED detectVars
  \/ LastLoop /\ UNCHANGED detectVars

MapSpec == MapInit /\ [][MapNext]_vars

MapIdle ==
  /\ game = [plugins |-> <<>>, active |-> {}]
  /\ loadOrder = <<>>
  /\ logger = FALSE
  /\ mpc = "idle"
  /\ data = <<>>
  /\ maybeMappedData = <<>>
  /\ done = {}
  /\ log = <<>>
  /\ outcome = NoOutcome

Init == DetectInit /\ MapIdle

Next ==
  \/ CallFindGameInstalls /\ UNCHANGED mapVars
  \/ CallDetectGameInstall /\ UNCHANGED mapVars
  \/ Return /\ UNCHANGED mapVars

Spec == Init /\ [][Next]_vars

(***************************************************************************)
(* Properties of the install detection, checked under Spec.                *)
(***************************************************************************)
FindReturned ==
  pc = "returned" /\ call.op = "FindGameInstalls" /\ result.status = "returned"

DetectReturned ==
  pc = "returned" /\ call.op = "DetectGameInstall"
  /\ result.status = "returned"

\* The validator accepts the sibling path for the game of the call.
SiblingAccepted ==
  <<GetGameType(call.gameId), GetMasterFilename(call.gameId),
    Resolve(SiblingPath)>> \in call.env.valid

\* The path the registry holds for the game of the call, as <<>> or <<path>>.
RegistryPath ==
  ReadPathFromRegistry(call.registry, GetRegistryValue(call.gameId))

\* The registry holds a path that the validator accepts.
RegistryAccepted ==
  /\ RegistryPath # <<>>
  /\ <<GetGameType(call.gameId), GetMasterFilename(call.gameId),
       Resolve(RegistryPath[1])>> \in call.env.valid

\* The validator accepts the configured settings.
SettingsAccepted ==
  <<call.settings.type, call.settings.master,
    Resolve(call.settings.gamePath)>> \in call.env.valid

\* The first of the four sources whose check is true for the install.
FirstMatch(install) ==
  IF IsSteamInstall(install.gameId, install.installPath).value THEN "steam"
  ELSE IF IsGogInstall(call.env, install.gameId, install.installPath).value
    THEN "gog"
  ELSE IF IsEpicInstall(install.installPath).value THEN "epic"
  ELSE IF IsMicrosoftInstall(install.installPath).value THEN "microsoft"
  ELSE "unknown"

\* C1: DetectGameInstall on accepted settings, and the sibling scan of
\* FindGameInstalls on an accepted sibling path, give the install the first of
\* steam, gog, epic, microsoft whose check is true, and unknown when none is;
\* with the Steam and the GOG check both true the source is steam.
C1_FourWayPriority ==
  /\ DetectReturned /\ SettingsAccepted =>
       /\ Len(result.value) = 1
       /\ result.value[1].installPath = call.settings.gamePath
       /\ result.value[1].source = FirstMatch(result.value[1])
  /\ FindReturned /\ SiblingAccepted =>
       /\ Len(result.value) >= 1
       /\ result.value[1].installPath = SiblingPath
       /\ result.value[1].source = FirstMatch(result.value[1])

\* C1, witness: an install whose Steam check and GOG check are both true, by
\* marker files, classified as steam.
C1_Witness ==
  /\ pc = "returned" /\ result.status = "returned" /\ Len(result.value) >= 1
  /\ \/ call.op = "DetectGameInstall" /\ SettingsAccepted
     \/ call.op = "FindGameInstalls" /\ SiblingAccepted
  /\ LET install == result.value[1]
     IN  /\ install.gameId \notin {"tes5", "tes5vr", "fo4vr"}
         /\ IsSteamInstall(install.gameId, install.installPath).value
         /\ IsGogInstall(call.env, install.gameId, install.installPath).value
         /\ install.source = "steam"

\* C2: the install of the registry scan has source steam, gog or unknown, and
\* unknown when neither the Steam nor the GOG check is true, whether or not
\* .egstore or appxmanifest.xml exists.
C2_RegistryNeverEpicOrMicrosoft ==
  FindReturned /\ RegistryAccepted =>
    LET install == result.value[Len(result.value)]
    IN  /\ Len(result.value) >= 1
        /\ install.installPath = RegistryPath[1]
        /\ install.source \in {"steam", "gog", "unknown"}
        /\ install.source =
             (IF IsSteamInstall(call.gameId, RegistryPath[1]).value
                THEN "steam"
              ELSE IF IsGogInstall(call.env, call.gameId,
                                   RegistryPath[1]).value
                THEN "gog"
              ELSE "unknown")

\* C2, witness: a registry install in a directory holding an Epic or Microsoft
\* marker, with neither Steam nor GOG check true, classified as unknown.
C2_Witness ==
  /\ FindReturned /\ RegistryAccepted
  /\ \/ Exists(RegistryPath[1], ".egstore")
     \/ Exists(RegistryPath[1], "appxmanifest.xml")
  /\ ~IsSteamInstall(call.gameId, RegistryPath[1]).value
  /\ ~IsGogInstall(call.env, call.gameId, RegistryPath[1]).value
  /\ result.value[Len(result.value)].source = "unknown"

\* C3: FindGameInstalls returns the sibling install (if any) followed by the
\* registry install (if any), without removing duplicates: two entries when
\* both paths are accepted, also when both name the same directory.
C3_SiblingThenRegistry ==
  FindReturned =>
    /\ Len(result.value) =
         (IF SiblingAccepted THEN 1 ELSE 0)
         + (IF RegistryAccepted THEN 1 ELSE 0)
    /\ Len(result.value) <= 2
    /\ SiblingAccepted => result.value[1].installPath = SiblingPath
    /\ RegistryAccepted =>
         result.value[Len(result.value)].installPath = RegistryPath[1]
    /\ SiblingAccepted /\ RegistryAccepted
       /\ Resolve(RegistryPath[1]) = Resolve(SiblingPath) =>
         Len(result.value) = 2

\* C3, witness: the registry names the sibling directory by its absolute path
\* and the result holds the directory twice.
C3_Witness ==
  /\ FindReturned /\ SiblingAccepted /\ RegistryAccepted
  /\ RegistryPath[1] = SiblingAbsolutePath
  /\ Len(result.value) = 2
  /\ result.value[1].installPath = SiblingPath
  /\ result.value[2].installPath = SiblingAbsolutePath
  /\ Resolve(result.value[1].installPath) = Resolve(result.value[2].installPath)

\* C4 as stated: every install FindGameInstalls emits carries the identity that
\* DetectGameId returns for the game's type and the install's path.
C4_IdentityIsResolved ==
  FindReturned =>
    \A i \in 1..Len(result.value) :
      result.value[i].gameId =
        DetectGameId(GetGameType(call.gameId),
                     result.value[i].installPath).value

\* C4 as amended: every install FindGameInstalls emits carries the game ID
\* that FindGameInstalls was called with, whatever launcher the path holds.
C4_IdentityIsArgument ==
  FindReturned =>
    /\ SiblingAccepted \/ RegistryAccepted => Len(result.value) >= 1
    /\ \A i \in 1..Len(result.value) : result.value[i].gameId = call.gameId

\* C4, witness: an install emitted for a game ID that DetectGameId would not
\* return for its path.
C4_Witness ==
  /\ FindReturned
  /\ \E i \in 1..Len(result.value) :
       /\ result.value[i].gameId = call.gameId
       /\ result.value[i].gameId #
            DetectGameId(GetGameType(call.gameId),
                         result.value[i].installPath).value

\* C9: DetectGameInstall on settings the validator rejects returns nothing
\* and makes no check but the validity check; the validity check is the first
\* check of every call and is made once.
C9_InvalidSettingsNoChecks ==
  pc = "returned" /\ call.op = "DetectGameInstall" =>
    /\ Len(checks) >= 1
    /\ checks[1] = [check |-> "IsValidGamePath",
                    path |-> call.settings.gamePath,
                    file |-> call.settings.master]
    /\ \A i \in 2..Len(checks) : checks[i].check = "exists"
    /\ ~SettingsAccepted =>
         /\ result = [status |-> "returned", value |-> <<>>]
         /\ Len(checks) = 1

\* C9, witness: rejected settings whose directory holds marker files.
C9_Witness ==
  /\ DetectReturned /\ ~SettingsAccepted
  /\ fs[Resolve(call.settings.gamePath)] # {}
  /\ result.value = <<>>
  /\ Len(checks) = 1

\* The identity the claim gives for a game type and a directory.
ClaimedIdentity(type, dir) ==
  CASE type = "tes4" ->
         IF "NehrimLauncher.exe" \in fs[dir] THEN "nehrim" ELSE "tes4"
    [] type = "tes5" ->
         IF "Enderal Launcher.exe" \in fs[dir] THEN "enderal" ELSE "tes5"
    [] type = "tes5se" ->
         IF "Enderal Launcher.exe" \in fs[dir] THEN "enderalse" ELSE "tes5se"
    [] OTHER -> type

\* C10: on accepted settings of a recognised game type the identity of the
\* install is the variant exactly when the type's launcher exists in the path
\* and the base game otherwise, the type's one game for a type without a
\* variant, and always a game of the type; an unrecognised type throws.
C10_ResolveIdentity ==
  pc = "returned" /\ call.op = "DetectGameInstall" /\ SettingsAccepted =>
    IF call.settings.type \in GameTypes
      THEN /\ result.status = "returned"
           /\ Len(result.value) = 1
           /\ result.value[1].gameId =
                ClaimedIdentity(call.settings.type,
                                Resolve(call.settings.gamePath))
           /\ result.value[1].gameId \in GameIds
           /\ GetGameType(result.value[1].gameId) = call.settings.type
      ELSE result = [status |-> "thrown", value |-> <<>>]

\* C10, witness: a variant identity returned for a path holding the launcher.
C10_Witness ==
  /\ DetectReturned /\ SettingsAccepted
  /\ call.settings.type = "tes5se"
  /\ Exists(call.settings.gamePath, "Enderal Launcher.exe")
  /\ result.value[1].gameId = "enderalse"

(***************************************************************************)
(* Properties of MapFromLoadOrderData, checked under MapSpec.              *)
(***************************************************************************)
\* The names of the load order that are loaded plugins, in load order.
KnownNames == SelectSeq(loadOrder, LAMBDA n : n \in DOMAIN game.plugins)

\* The position of a name in the load order.
Position(name) == CHOOSE j \in 1..Len(loadOrder) : loadOrder[j] = name

\* The positions of maybeMappedData holding an error.
Failed ==
  {i \in 1..Len(maybeMappedData) : maybeMappedData[i].holds = "string"}

\* The lowest position holding an error.
FirstFailed == CHOOSE i \in Failed : \A j \in Failed : i <= j

\* The number of loaded, active plugins of the kind of the plugin name that
\* precede it in the load order.
ActiveBefore(name) ==
  Cardinality({j \in 1..(Position(name) - 1) :
                 /\ loadOrder[j] \in DOMAIN game.plugins
                 /\ loadOrder[j] \in game.active
                 /\ game.plugins[loadOrder[j]].isLight
                      = game.plugins[name].isLight})

\* C5: when no mapper call throws, the result holds one value per name of the
\* load order that is a loaded plugin, in load order, in whatever order the
\* elements were transformed; the other names add nothing and are no error.
C5_OrderPreserved ==
  mpc = "done" /\ Failed = {} =>
    /\ outcome.status = "returned"
    /\ Len(outcome.value) = Len(KnownNames)
    /\ \A i \in 1..Len(KnownNames) :
         /\ outcome.value[i].plugin = KnownNames[i]
         /\ outcome.value[i].isActive = (KnownNames[i] \in game.active)

\* C5, witness: a, b, c with b not loaded gives the values of a and c.
C5_Witness ==
  /\ mpc = "done"
  /\ loadOrder = <<"a.esp", "b.esp", "c.esp">>
  /\ DOMAIN game.plugins = {"a.esp", "c.esp"}
  /\ outcome.status = "returned"
  /\ Len(outcome.value) = 2
  /\ outcome.value[1].plugin = "a.esp"
  /\ outcome.value[2].plugin = "c.esp"

\* C6: the index handed to the mapper is absent for an inactive plugin and
\* otherwise the number of loaded, active plugins of the same kind before it
\* in the load order.
C6_ActiveIndexPerKind ==
  mpc # "first loop" =>
    /\ Len(data) = Len(KnownNames)
    /\ \A i \in 1..Len(data) :
         /\ data[i].plugin = KnownNames[i]
         /\ data[i].isActive = (data[i].plugin \in game.active)
         /\ data[i].activeLoadOrderIndex =
              (IF data[i].plugin \in game.active
                 THEN <<ActiveBefore(data[i].plugin)>>
                 ELSE <<>>)
         /\ i \in done /\ maybeMappedData[i].holds = "T" =>
              maybeMappedData[i].value = data[i]

\* C6, witness: active plugins light, normal, light, normal are mapped with
\* the indices 0, 0, 1, 1.
C6_Witness ==
  /\ mpc = "done"
  /\ outcome.status = "returned"
  /\ Len(outcome.value) = 4
  /\ \A i \in 1..4 :
       /\ outcome.value[i].isActive
       /\ game.plugins[outcome.value[i].plugin].isLight = (i \in {1, 3})
  /\ outcome.value[1].activeLoadOrderIndex = <<0>>
  /\ outcome.value[2].activeLoadOrderIndex = <<0>>
  /\ outcome.value[3].activeLoadOrderIndex = <<1>>
  /\ outcome.value[4].activeLoadOrderIndex = <<1>>

\* C7: if the mapper threw for an element, MapFromLoadOrderData throws and
\* returns no vector, and the error of every such element was logged once;
\* without a logger the outcome is the same and nothing is logged.
C7_AnyFailureThrows ==
  /\ Len(log) = (IF logger THEN Cardinality(Failed) ELSE 0)
  /\ \A i \in Failed :
       logger => \E k \in 1..Len(log) : log[k] = ErrorLine(What(data[i]))
  /\ mpc = "done" /\ Failed # {} =>
       /\ outcome.status = "thrown"
       /\ outcome.value = <<>>
       /\ outcome.what \in {What(data[i]) : i \in Failed}

\* C7, witness: the mapper threw for a later element only; the call threw,
\* without the values mapped before it, and the error was logged.
C7_Witness ==
  /\ mpc = "done"
  /\ logger
  /\ Failed # {}
  /\ 1 \notin Failed
  /\ outcome.status = "thrown"
  /\ outcome.value = <<>>
  /\ Len(log) = Cardinality(Failed)

\* C8: the error thrown is that of the lowest position holding an error,
\* whichever element failed first in time, and the last loop runs only once
\* every element has been transformed.
C8_LowestPositionWins ==
  mpc = "done" =>
    /\ done = 1..Len(data)
    /\ Len(maybeMappedData) = Len(data)
    /\ Failed # {} =>
         /\ outcome.status = "thrown"
         /\ outcome.what = What(data[FirstFailed])

\* C8, witness: two elements failed, the one at the higher position first in
\* time, and the error thrown is that of the lower position.
C8_Witness ==
  /\ mpc = "done"
  /\ logger
  /\ Cardinality(Failed) >= 2
  /\ log[1] # ErrorLine(What(data[FirstFailed]))
  /\ outcome.status = "thrown"
  /\ outcome.what = What(data[FirstFailed])

====
